---- MODULE Spec2Model ----
(***************************************************************************)
(* TLS record fragmentation writer (transport/tls-record-frag/writer.go). *)
(*                                                                         *)
(* One tlsRecordFragWriter over one sink.  A byte buffer is a sequence of  *)
(* numbers 0..255; Go's 0-based data[i] is the 1-based data[i+1] here.     *)
(* The sink and the source are the environment: each call chooses how many *)
(* bytes the sink accepts before it fails, and what the source holds, how  *)
(* it ends and how many bytes it hands out per Read.  The sink keeps the   *)
(* io.Writer contract (0 <= n <= len(buf), an error whenever n < len(buf)).*)
(* A slice expression out of range is a run-time panic: the call writes    *)
(* nothing, changes nothing and no further call is made on the writer.     *)
(* A buffer's capacity is its length, and its length is below 2^31.        *)
(***************************************************************************)
EXTENDS Integers, Sequences, FiniteSets

(* ---- program constants ------------------------------------------------ *)
maxRecordLength == 16384
typeHandshake == 22
headerLen == 5
MaxInt32 == 2147483647
copyBufLen == 32768

(* ---- bounds of the model ---------------------------------------------- *)
MaxOffset == 2
MaxRecLen == 3
MaxTrail == 2
MaxCalls == 2

(* ---- values ------------------------------------------------------------ *)
(* a budget no buffer of the model exceeds: the sink accepts everything *)
NoLimit == MaxInt32
Nil == "nil"
EOF == "EOF"
ErrUnexpectedEOF == "ErrUnexpectedEOF"
EREAD == "EREAD"
EWRITE == "EWRITE"

Min(a, b) == IF a < b THEN a ELSE b

Take(s, n) == SubSeq(s, 1, Min(n, Len(s)))

Drop(s, n) == SubSeq(s, n + 1, Len(s))

RECURSIVE Flatten(_)
Flatten(ss) == IF ss = <<>> THEN <<>> ELSE Head(ss) \o Flatten(Tail(ss))

(* int32 addition of a non-negative b, wrapping around at 2^31 - 1 *)
Add32(a, b) ==
  IF a > MaxInt32 - b THEN ((a - MaxInt32) - 1) + ((b - MaxInt32) - 1) ELSE a + b

(* binary.BigEndian.Uint16 of the two bytes hi, lo *)
Uint16(hi, lo) == hi * 256 + lo

(* binary.BigEndian.PutUint16(uint16(v)): the two bytes written *)
PutUint16(v) == << (v % 65536) \div 256, v % 256 >>

(* ---- the sink: w.writer.Write(buf) ------------------------------------- *)
(* budget is the number of bytes the sink still accepts in this call.  A   *)
(* short count always comes with an error.                                 *)
SinkWrite(buf, budget) ==
  IF Len(buf) <= budget
  THEN [buf |-> buf, n |-> Len(buf), err |-> Nil]
  ELSE [buf |-> buf, n |-> budget, err |-> EWRITE]

Left(budget, n) == budget - n

(* ReadFull that reports a short read as a complete one *)
ReadFull_ShortIsFine(rest, end, m, chunk) == [n |-> Min(m, Len(rest)), err |-> Nil]

(* ReadFull as a single Read of the source *)
ReadFull_OneRead(rest, end, m, chunk) ==
  IF m > 0 /\ Len(rest) = 0
  THEN [n |-> 0, err |-> end]
  ELSE [n |-> Min(Min(chunk, m), Len(rest)), err |-> Nil]

(* ---- the source: io.ReadFull(source, buf) with len(buf) = m ------------ *)
(* The loop of io.ReadAtLeast: Read until m bytes are in or the source has *)
(* ended; each Read hands out at most chunk bytes; n bytes are in so far.  *)
RECURSIVE ReadLoop(_, _, _, _)
ReadLoop(avail, m, chunk, n) ==
  IF n >= m \/ n >= avail THEN n
  ELSE ReadLoop(avail, m, chunk, n + Min(chunk, Min(m - n, avail - n)))

ReadFull(rest, end, m, chunk) ==
  LET n == ReadLoop(Len(rest), m, chunk, 0)
  IN IF n >= m
     THEN [n |-> n, err |-> Nil]
     ELSE [n |-> n,
           err |-> IF end = EOF
                   THEN (IF n = 0 THEN EOF ELSE ErrUnexpectedEOF)
                   ELSE end]

(* ---- io.Copy(w.writer, source) ----------------------------------------- *)
(* The source hands out at most chunk bytes per Read; every chunk read is  *)
(* one sink write; the first sink error stops the copy; the end of the     *)
(* source is nil when it is EOF and the source's error otherwise.  read is *)
(* the number of bytes taken from the source.                              *)
Pieces(rest, chunk) ==
  [i \in 1..((Len(rest) + chunk - 1) \div chunk) |->
      SubSeq(rest, (i - 1) * chunk + 1, Min(i * chunk, Len(rest)))]

Copy(rest, end, chunk, budget) ==
  LET pieces == Pieces(rest, Min(chunk, copyBufLen))
      c == Min(chunk, copyBufLen)
      bad == {i \in 1..Len(pieces) : Min(i * c, Len(rest)) > budget}
  IN IF bad = {}
     THEN [writes |-> [i \in 1..Len(pieces) |-> SinkWrite(pieces[i], NoLimit)],
           n |-> Len(rest),
           err |-> IF end = EOF THEN Nil ELSE end,
           read |-> Len(rest)]
     ELSE LET f == CHOOSE i \in bad : \A j \in bad : i <= j
          IN [writes |-> [i \in 1..f |->
                            IF i < f THEN SinkWrite(pieces[i], NoLimit)
                            ELSE SinkWrite(pieces[i], budget - (f - 1) * c)],
              n |-> budget,
              err |-> EWRITE,
              read |-> Min(f * c, Len(rest))]

(* ---- buffers ------------------------------------------------------------ *)
(* make([]byte, n) *)
Make(n) == [i \in 1..n |-> 0]

(* copy(buf[at:], src): src laid over buf from the 0-based index at, cut   *)
(* at the end of buf                                                        *)
CopyAt(buf, at, src) ==
  LET b == buf
      s == src
      m == Min(Len(s), Len(b) - at)
  IN SubSeq(b, 1, at) \o SubSeq(s, 1, m) \o SubSeq(b, at + m + 1, Len(b))

(* ---- Write: the tests of lines 107-109 ---------------------------------- *)
(* the partial-record test missing a record that is one byte short *)
hasPartialRecord_OffByOne(recordLength, remainderLength) ==
  recordLength > remainderLength + 1

hasPartialRecord(recordLength, remainderLength) == recordLength > remainderLength

hasMultipleRecords(recordLength, remainderLength) == recordLength < remainderLength

(* the overflow test against twice the limit *)
isRecordOverflow_Doubled(recordLength) == recordLength > 2 * maxRecordLength

isRecordOverflow(recordLength) == recordLength > maxRecordLength

(* line 99: too short to hold the header and more than prefixBytes bytes *)
tooShort(p, length) == Add32(p, headerLen) >= length

(* line 111: the record is written as it is *)
dontSplit(p, data, recordLength, remainderLength) ==
  \/ data[1] /= typeHandshake
  \/ hasPartialRecord(recordLength, remainderLength)
  \/ p = recordLength
  \/ isRecordOverflow(recordLength)

(* the split buffer with the whole record length in the second header *)
fragBuf_SecondLengthWhole(p, data, recordLength, remainderLength) ==
  LET remainder == Drop(data, 5)
      header == SubSeq(data, 1, 3)
      record1 == SubSeq(remainder, 1, p)
      record2 == SubSeq(remainder, p + 1, recordLength)
  IN header \o PutUint16(p) \o record1 \o header \o PutUint16(recordLength) \o record2
       \o Drop(remainder, recordLength)

(* lines 116-131: the buffer of the split record *)
fragBuf(p, data, recordLength, remainderLength) ==
  LET length == Len(data)
      remainder == Drop(data, 5)
      header == SubSeq(data, 1, 3)
      record1 == SubSeq(remainder, 1, p)
      record2 == SubSeq(remainder, p + 1, recordLength)
      b0 == Make(length + 5)
      b1 == CopyAt(b0, 0, header)
      b2 == CopyAt(b1, 3, PutUint16(p))
      b3 == CopyAt(b2, 5, record1)
      b4 == CopyAt(b3, 5 + p, header)
      b5 == CopyAt(b4, 5 + 3 + p, PutUint16(Len(record2)))
      b6 == CopyAt(b5, 5 + 5 + p, record2)
  IN IF hasMultipleRecords(recordLength, remainderLength)
     THEN CopyAt(b6, 5 + 5 + recordLength, Drop(remainder, recordLength))
     ELSE b6

(* the count with both headers of the split buffer subtracted *)
fragCount_BothHeaders(written) == IF written >= 10 THEN written - 10 ELSE written

(* the count with the subtraction of the added header left unguarded *)
fragCount_NoGuard(written) == written - 5

(* the count of the split buffer reported as the sink gave it *)
fragCount_Raw(written) == written

(* lines 134-138: the count reported for the written split buffer *)
fragCount(written) == IF written >= 5 THEN written - 5 ELSE written

(* the outcome of one call: the new prefixBytes, the sink writes in order, *)
(* the returned count and error, the bytes taken from the source, whether  *)
(* the call assembled and wrote a split record, and whether it ended in a  *)
(* run-time panic                                                          *)
Outcome(p, writes, n, err, consumed, split, panic) ==
  [prefixBytes |-> p, writes |-> writes, n |-> n, err |-> err,
   consumed |-> consumed, split |-> split, panic |-> panic]

Panic(p) == Outcome(p, <<>>, 0, "panic", 0, FALSE, TRUE)

(* a pass-through that counts the remaining offset down by what was written *)
passData_CountsDown(p, data, budget) ==
  LET w == SinkWrite(data, budget) IN Outcome(p - w.n, <<w>>, w.n, w.err, 0, FALSE, FALSE)

(* return w.writer.Write(data), prefixBytes left at p *)
passData(p, data, budget) ==
  LET w == SinkWrite(data, budget) IN Outcome(p, <<w>>, w.n, w.err, 0, FALSE, FALSE)

(* Write, lines 98-138: the writer is armed *)
armedWrite(p, data, budget) ==
  LET length == Len(data) IN
  IF tooShort(p, length) THEN passData(0, data, budget)
  ELSE IF length < 5 THEN Panic(p)                     \* data[3:], Uint16: out of range
  ELSE LET recordLength == Uint16(data[4], data[5])
           remainderLength == length - 5
       IN IF dontSplit(p, data, recordLength, remainderLength)
          THEN passData(0, data, budget)
          ELSE IF p > remainderLength THEN Panic(p)    \* remainder[:prefixBytes]
          ELSE IF p > recordLength \/ recordLength > remainderLength
               THEN Panic(p)                           \* remainder[prefixBytes:recordLength]
          ELSE LET w == SinkWrite(fragBuf(p, data, recordLength, remainderLength), budget)
               IN Outcome(0, <<w>>, fragCount(w.n), w.err, 0, TRUE, FALSE)

(* Write with the test of line 97 admitting 0 *)
WriteCall_ArmedAtZero(p, data, budget) ==
  IF 0 <= p THEN armedWrite(p, data, budget) ELSE passData(p, data, budget)

(* func (w *tlsRecordFragWriter) Write(data []byte) *)
WriteCall(p, data, budget) ==
  IF 0 < p THEN armedWrite(p, data, budget) ELSE passData(p, data, budget)

(* ---- ReadFrom ------------------------------------------------------------ *)
(* func (w *tlsRecordFragWriter) dontFrag(first []byte, source io.Reader), *)
(* rest being what the source still holds and used what was read before    *)
dontFrag(first, rest, end, chunk, budget, used) ==
  LET w == SinkWrite(first, budget) IN
  IF w.err /= Nil
  THEN Outcome(0, <<w>>, w.n, w.err, used, FALSE, FALSE)
  ELSE LET c == Copy(rest, end, chunk, Left(budget, w.n))
       IN Outcome(0, <<w>> \o c.writes, w.n + c.n, c.err, used + c.read, FALSE, FALSE)

(* the test of lines 55-60 without the record type *)
dontFragRecord_AnyType(p, recordHeader, recordLength) ==
  \/ p >= recordLength
  \/ recordLength > maxRecordLength

(* lines 55-60: the record is not split *)
dontFragRecord(p, recordHeader, recordLength) ==
  \/ recordHeader[1] /= typeHandshake
  \/ p >= recordLength
  \/ recordLength > maxRecordLength

(* ReadFrom, lines 49-89: the writer is armed *)
armedReadFrom(p, src, end, chunk, budget) ==
  LET r1 == ReadFull(src, end, 5, chunk) IN
  IF r1.err /= Nil THEN Outcome(p, <<>>, 0, r1.err, r1.n, FALSE, FALSE)
  ELSE
  LET recordHeader == CopyAt(Make(5), 0, SubSeq(src, 1, r1.n))   \* var recordHeader [5]byte
      recordLength == Uint16(recordHeader[4], recordHeader[5])
      rest1 == Drop(src, 5)
  IN IF dontFragRecord(p, recordHeader, recordLength)
     THEN dontFrag(recordHeader, rest1, end, chunk, budget, 5)
     ELSE
     LET header == SubSeq(recordHeader, 1, 3)
         b0 == Make(recordLength + 10)
         b1 == CopyAt(b0, 0, header)
         b2 == CopyAt(b1, 3, PutUint16(p))
         r2 == ReadFull(rest1, end, p, chunk)
     IN IF r2.err /= Nil THEN Outcome(0, <<>>, 0, r2.err, 5 + r2.n, FALSE, FALSE)
        ELSE
        LET n2 == r2.n
            b3 == CopyAt(b2, 5, SubSeq(rest1, 1, n2))
            rest2 == Drop(rest1, n2)
            b4 == CopyAt(b3, 5 + n2, header)
            b5 == CopyAt(b4, 5 + n2 + 3, PutUint16(recordLength - p))
            r3 == ReadFull(rest2, end, recordLength - p, chunk)
        IN IF r3.err /= Nil THEN Outcome(0, <<>>, 0, r3.err, 5 + n2 + r3.n, FALSE, FALSE)
           ELSE
           LET buf == CopyAt(b5, 10 + p, SubSeq(rest2, 1, r3.n))
               rest3 == Drop(rest2, r3.n)
               w == SinkWrite(buf, budget)
               written == fragCount(w.n)
           IN IF w.err /= Nil
              THEN Outcome(0, <<w>>, written, w.err, 5 + recordLength, TRUE, FALSE)
              ELSE LET c == Copy(rest3, end, chunk, Left(budget, w.n))
                   IN Outcome(0, <<w>> \o c.writes, written + c.n, c.err,
                              5 + recordLength + c.read, TRUE, FALSE)

(* ReadFrom, lines 91-93: the rest of the source, or all of it when the   *)
(* writer is not armed                                                      *)
copyAll(p, src, end, chunk, budget) ==
  LET c == Copy(src, end, chunk, budget)
  IN Outcome(p, c.writes, c.n, c.err, c.read, FALSE, FALSE)

(* ReadFrom with the test of line 48 admitting 0 *)
ReadFromCall_ArmedAtZero(p, src, end, chunk, budget) ==
  IF 0 <= p THEN armedReadFrom(p, src, end, chunk, budget)
  ELSE copyAll(p, src, end, chunk, budget)

(* func (w *tlsRecordFragWriter) ReadFrom(source io.Reader) *)
ReadFromCall(p, src, end, chunk, budget) ==
  IF 0 < p THEN armedReadFrom(p, src, end, chunk, budget)
  ELSE copyAll(p, src, end, chunk, budget)

(* ---- inputs --------------------------------------------------------------- *)
Offsets == {-1, 0} \cup (1..MaxOffset) \cup {MaxInt32 - 5, MaxInt32}

Budgets == {3, 6, NoLimit}

Ends == {EOF, EREAD}

Chunks == {1, 2, copyBufLen}

Payload(n) == [i \in 1..n |-> 100 + (i % 100)]

Trailer(n) == [i \in 1..n |-> 200 + (i % 50)]

(* a record header of the given type and length field, have payload bytes  *)
(* and trail bytes after them                                               *)
Record(type, L, have, trail) ==
  <<type, 3, 1, L \div 256, L % 256>> \o Payload(have) \o Trailer(trail)

SmallBuffers ==
  {Take(Record(typeHandshake, 1, 0, 0), k) : k \in 0..4}
  \cup {Record(typeHandshake, L, L, t) : L \in 0..MaxRecLen, t \in {0, MaxTrail}}
  \cup {Record(typeHandshake, L, L - 1, 0) : L \in 1..MaxRecLen}
  \cup {Record(23, MaxRecLen, MaxRecLen, t) : t \in {0, MaxTrail}}
  \cup {Record(23, MaxRecLen, MaxRecLen - 1, 0)}

BigBuffers == {Record(typeHandshake, L, L, 0) : L \in {maxRecordLength, maxRecordLength + 1}}

Buffers == SmallBuffers \cup BigBuffers

(* ---- state ---------------------------------------------------------------- *)
VARIABLES
  prefixBytes,   \* w.prefixBytes
  configured,    \* the prefixBytes NewWriter was given
  panicked,      \* a call ended in a run-time panic: the program is gone
  calls,         \* number of calls made on the writer
  pushOnly,      \* every call so far was a Write
  firstKind,     \* what the first call's input began with
  splits,        \* number of calls that wrote a split record
  last,          \* the last call: its input and its outcome
  fed,           \* SpecPush: all inputs so far, concatenated
  sunk           \* SpecPush: all bytes the sink accepted so far, concatenated

vars == <<prefixBytes, configured, panicked, calls, pushOnly, firstKind, splits, last, fed, sunk>>

KindOf(input) ==
  IF Len(input) < 5 THEN "short"
  ELSE IF input[1] = typeHandshake THEN "handshake" ELSE "other"

(* func NewWriter(writer io.Writer, prefixBytes int32) *)
Init ==
  /\ prefixBytes \in Offsets
  /\ configured = prefixBytes
  /\ panicked = FALSE
  /\ calls = 0
  /\ pushOnly = TRUE
  /\ firstKind = "none"
  /\ splits = 0
  /\ last = [op |-> "none", input |-> <<>>, end |-> "none", before |-> 0, writes |-> <<>>,
             n |-> 0, err |-> Nil, consumed |-> 0, split |-> FALSE]
  /\ fed = <<>>
  /\ sunk = <<>>

(* what every call leaves behind, r being its outcome *)
Called(op, input, end, r) ==
  /\ prefixBytes' = r.prefixBytes
  /\ panicked' = r.panic
  /\ calls' = calls + 1
  /\ pushOnly' = (pushOnly /\ op = "Write")
  /\ firstKind' = IF calls = 0 THEN KindOf(input) ELSE firstKind
  /\ splits' = IF r.split THEN splits + 1 ELSE splits
  /\ last' = [op |-> op, input |-> input, end |-> end, before |-> prefixBytes,
              writes |-> r.writes,
              n |-> r.n, err |-> r.err, consumed |-> r.consumed, split |-> r.split]
  /\ UNCHANGED configured

(* A call can be made while the program runs (a panic ends it) and the     *)
(* call bound is not reached.  The two 16 KiB records are offered to the   *)
(* first call only, and a source holding one hands it out in full reads.   *)
(* A source that ends in an error of its own is read into a sink that      *)
(* accepts everything: the source's end is reached only after every sink   *)
(* write before it has gone through, so a smaller sink adds no outcome.    *)
CanCall(input) ==
  /\ ~panicked
  /\ calls < MaxCalls
  /\ input \in BigBuffers => calls = 0

Write(data, budget) ==
  /\ CanCall(data)
  /\ Called("Write", data, "none", WriteCall(prefixBytes, data, budget))
  /\ UNCHANGED <<fed, sunk>>

ReadFrom(src, end, chunk, budget) ==
  /\ CanCall(src)
  /\ src \in BigBuffers => chunk = copyBufLen
  /\ end /= EOF => budget = NoLimit
  /\ Called("ReadFrom", src, end, ReadFromCall(prefixBytes, src, end, chunk, budget))
  /\ UNCHANGED <<fed, sunk>>

Next ==
  \/ \E data \in Buffers, budget \in Budgets : Write(data, budget)
  \/ \E src \in Buffers, end \in Ends, chunk \in Chunks, budget \in Budgets :
       ReadFrom(src, end, chunk, budget)

Spec == Init /\ [][Next]_vars

(* ---- push-only runs with the whole history ------------------------------ *)
(* Write calls only, on a sink that accepts every byte; fed and sunk keep  *)
(* everything that was put in and everything the sink accepted.            *)
Accepted(writes) == Flatten([i \in 1..Len(writes) |-> Take(writes[i].buf, writes[i].n)])

PushWrite(data) ==
  /\ CanCall(data)
  /\ LET r == WriteCall(prefixBytes, data, NoLimit)
     IN /\ Called("Write", data, "none", r)
        /\ fed' = fed \o data
        /\ sunk' = sunk \o Accepted(r.writes)

NextPush == \E data \in Buffers : PushWrite(data)

SpecPush == Init /\ [][NextPush]_vars

(* ---- reading a call off the state ---------------------------------------- *)
(* the bytes the call handed to the sink, in order *)
Handed(c) == Flatten([i \in 1..Len(c.writes) |-> c.writes[i].buf])

(* the call handed the sink its own input, byte for byte: all of it when   *)
(* it returned no error, and a leading part of it otherwise                *)
Verbatim(c) ==
  LET h == Handed(c)
  IN /\ h = Take(c.input, Len(h))
     /\ c.err = Nil => h = c.input

(* the call was a Write that made one sink write of its own buffer and     *)
(* returned what the sink returned                                          *)
PlainWrite(c) ==
  /\ Len(c.writes) = 1
  /\ c.writes[1].buf = c.input
  /\ c.n = c.writes[1].n
  /\ c.err = c.writes[1].err

HasHeader(input) == Len(input) >= 5

LengthField(input) == Uint16(input[4], input[5])

(* input begins with a whole handshake record that offset p can split *)
Splittable(p, input) ==
  /\ HasHeader(input)
  /\ input[1] = typeHandshake
  /\ 0 < p
  /\ p < LengthField(input)
  /\ LengthField(input) <= maxRecordLength
  /\ Len(input) - 5 >= LengthField(input)

ReturnedError(c) == c.err \notin {Nil, "panic"}

(* ---- C1 ------------------------------------------------------------------- *)
(* C1: over any mix of Write and ReadFrom calls only the first call can    *)
(* alter the stream: every later call hands its bytes to the sink          *)
(* unmodified and performs no split.                                        *)
C1_OnlyFirstCallAlters == calls >= 2 => (~last.split /\ Verbatim(last))

(* ---- C2 ------------------------------------------------------------------- *)
(* C2: in a run of Write calls only, every call after the first hands the  *)
(* sink exactly its input in one write and returns the sink's count and    *)
(* error.                                                                   *)
C2_LaterWritesPlain == (pushOnly /\ calls >= 2) => (PlainWrite(last) /\ ~last.split)

(* a second Write, after a split, of a record the first call would split *)
C2_Witness ==
  /\ pushOnly /\ calls >= 2 /\ splits = 1
  /\ Splittable(configured, last.input)

(* ---- C3 ------------------------------------------------------------------- *)
(* C3: over Write calls on an accepting sink, the bytes the sink got are   *)
(* the inputs, plus, exactly when a split occurred, one 5-byte header with *)
(* the original type and version whose length and the first header's       *)
(* length add up to the original record's length.                          *)
C3_ContentPreserved ==
  \/ splits = 0 /\ sunk = fed
  \/ /\ splits = 1
     /\ Len(sunk) = Len(fed) + 5
     /\ LET first == LengthField(sunk)
            extra == SubSeq(sunk, 5 + first + 1, 5 + first + 5)
        IN /\ SubSeq(extra, 1, 3) = SubSeq(fed, 1, 3)
           /\ SubSeq(sunk, 1, 3) = SubSeq(fed, 1, 3)
           /\ first + LengthField(extra) = LengthField(fed)
           /\ SubSeq(sunk, 6, 5 + first) \o SubSeq(sunk, 5 + first + 6, Len(sunk)) = Drop(fed, 5)

(* ---- C4 ------------------------------------------------------------------- *)
(* the record of input split at offset p, followed by the rest of input *)
SplitLayout(p, input) ==
  LET L == LengthField(input)
      version == SubSeq(input, 2, 3)
      payload == SubSeq(input, 6, 5 + L)
      headerA == <<input[1]>> \o version \o PutUint16(p)
      headerB == <<input[1]>> \o version \o PutUint16(L - p)
  IN headerA \o SubSeq(payload, 1, p) \o headerB \o SubSeq(payload, p + 1, L)
       \o SubSeq(input, 5 + L + 1, Len(input))

(* C4: a Write on an armed writer whose buffer begins with a whole         *)
(* handshake record of length L <= 16384, with 0 < offset < L, makes one   *)
(* sink write of headerA, payload[0:offset], headerB, payload[offset:L]    *)
(* and the bytes after the record unmodified; both lengths are non-zero.   *)
C4_SplitLayout ==
  (last.op = "Write" /\ Splittable(last.before, last.input)) =>
     /\ last.split
     /\ Len(last.writes) = 1
     /\ last.writes[1].buf = SplitLayout(last.before, last.input)
     /\ LengthField(last.writes[1].buf) = last.before
     /\ LengthField(SubSeq(last.writes[1].buf, 5 + last.before + 1, 5 + last.before + 5))
          = LengthField(last.input) - last.before
     /\ LengthField(last.input) - last.before > 0

(* a split at offset L-1 of a record that other bytes follow *)
C4_Witness ==
  /\ last.op = "Write" /\ Splittable(last.before, last.input)
  /\ last.before = LengthField(last.input) - 1
  /\ Len(last.input) > 5 + LengthField(last.input)

(* ---- C5 ------------------------------------------------------------------- *)
(* C5: a Write that splits and whose sink accepts the whole buffer of      *)
(* len(input)+5 bytes returns len(input) and no error.                     *)
C5_LogicalCount ==
  (last.op = "Write" /\ last.split /\ last.writes[1].err = Nil) =>
     /\ Len(last.writes[1].buf) = Len(last.input) + 5
     /\ last.writes[1].n = Len(last.input) + 5
     /\ last.n = Len(last.input)
     /\ last.err = Nil

C5_Witness ==
  /\ last.op = "Write" /\ last.split
  /\ last.writes[1].err = Nil
  /\ last.writes[1].n = Len(last.input) + 5

(* ---- C6 ------------------------------------------------------------------- *)
(* C6: a call on an armed writer whose offset is at least the first        *)
(* record's length field completes normally without a split, hands the     *)
(* input to the sink verbatim and leaves the writer disarmed, in both      *)
(* modes and also when other records follow the first one.                 *)
C6_OffsetOutOfRange ==
  (last.op /= "none" /\ 0 < last.before /\ HasHeader(last.input)
     /\ last.before >= LengthField(last.input)) =>
     /\ ~panicked
     /\ ~last.split
     /\ Verbatim(last)
     /\ prefixBytes = 0

(* ---- C7 ------------------------------------------------------------------- *)
(* C7: after a Write or ReadFrom on an armed writer that returns an error  *)
(* the remaining offset is 0.                                               *)
C7_FailureDisarms ==
  (last.op /= "none" /\ 0 < last.before /\ ReturnedError(last)) => prefixBytes = 0

(* ---- C8 ------------------------------------------------------------------- *)
(* C8: when the first call's input begins with a record header whose type  *)
(* is not 22, the first call and every later call hand their bytes to the  *)
(* sink unchanged (an armed ReadFrom writes the 5 header bytes first) and  *)
(* no call ever splits.                                                     *)
C8_NonHandshake ==
  firstKind = "other" =>
     /\ ~panicked
     /\ splits = 0
     /\ Verbatim(last)
     /\ (last.op = "ReadFrom" /\ 0 < last.before /\ last.writes /= <<>>) =>
           last.writes[1].buf = SubSeq(last.input, 1, 5)
     /\ last.op = "Write" => PlainWrite(last)

(* a later call carrying a record the writer would split were it armed *)
C8_Witness ==
  /\ firstKind = "other" /\ calls >= 2
  /\ Splittable(configured, last.input)

(* ---- C9 ------------------------------------------------------------------- *)
(* C9: a call on an armed writer whose first record announces more than    *)
(* 16384 bytes does not split, hands the input over verbatim and disarms   *)
(* the writer, in both modes; a whole handshake record of exactly 16384    *)
(* bytes with offset < length is split.                                     *)
C9_Oversized ==
  /\ (last.op /= "none" /\ 0 < last.before /\ HasHeader(last.input)
        /\ LengthField(last.input) > maxRecordLength) =>
        (~panicked /\ ~last.split /\ Verbatim(last) /\ prefixBytes = 0)
  /\ (last.op /= "none" /\ Splittable(last.before, last.input)
        /\ LengthField(last.input) = maxRecordLength) => last.split

(* a whole handshake record of 16385 bytes, offset below the length *)
C9_Witness ==
  /\ last.op /= "none" /\ 0 < last.before /\ HasHeader(last.input)
  /\ last.input[1] = typeHandshake
  /\ LengthField(last.input) = maxRecordLength + 1
  /\ Len(last.input) = 5 + LengthField(last.input)
  /\ last.before < LengthField(last.input)
  /\ last.err = Nil

(* ---- C10 ------------------------------------------------------------------ *)
(* the source of an armed ReadFrom ran out inside the header, or inside    *)
(* the payload of a record the call set out to split                        *)
ShortSource(c) ==
  /\ c.op = "ReadFrom" /\ 0 < c.before
  /\ \/ ~HasHeader(c.input)
     \/ /\ c.input[1] = typeHandshake
        /\ c.before < LengthField(c.input)
        /\ LengthField(c.input) <= maxRecordLength
        /\ Len(c.input) < 5 + LengthField(c.input)

(* C10: such a ReadFrom returns the read error with count 0 and makes no   *)
(* sink write.                                                              *)
C10_ShortSourceWritesNothing ==
  ShortSource(last) =>
     /\ last.n = 0
     /\ last.writes = <<>>
     /\ last.err \in (IF last.end = EOF THEN {EOF, ErrUnexpectedEOF} ELSE {last.end})

(* the source ended inside the second part of the record *)
C10_Witness ==
  /\ ShortSource(last) /\ HasHeader(last.input)
  /\ Len(last.input) > 5 + last.before

(* C11: in every reachable state the remaining offset is the value given   *)
(* at construction or 0, and no call changes an offset that is not         *)
(* positive: once disarmed, the writer is never armed again.               *)
C11_NeverRearmed ==
  /\ [](prefixBytes \in {configured, 0})
  /\ [][(~(0 < prefixBytes)) => prefixBytes' = prefixBytes]_vars

(* a call made on a writer that an earlier call had disarmed *)
C11_Witness ==
  /\ calls >= 2
  /\ 0 < configured
  /\ last.before = 0
  /\ prefixBytes = 0
  /\ Splittable(configured, last.input)

(* C12: when a Write splits and the sink reports k accepted bytes, the     *)
(* returned count is max(0, k - 5) and the returned error is the sink's.   *)
C12_ClampedCount ==
  (last.op = "Write" /\ last.split) =>
     /\ Len(last.writes) = 1
     /\ last.n = (IF last.writes[1].n - 5 > 0 THEN last.writes[1].n - 5 ELSE 0)
     /\ last.err = last.writes[1].err

(* C13: a first Write on a writer armed with any positive 32-bit offset,   *)
(* with a buffer shorter than 5 + offset + 1 bytes, makes one sink write   *)
(* of the buffer unchanged, disarms the writer and reads no byte out of    *)
(* bounds (the call does not panic).                                       *)
C13_ShortBufferPasses ==
  (last.op = "Write" /\ 0 < last.before /\ Len(last.input) - 5 <= last.before) =>
     /\ ~panicked
     /\ PlainWrite(last)
     /\ ~last.split
     /\ prefixBytes = 0

(* C14: a Write on an armed writer whose buffer holds a record header and  *)
(* fewer payload bytes than the header's length field announces does not   *)
(* split: it makes one sink write of the buffer as it is and disarms the   *)
(* writer, and every Write on the disarmed writer is a plain sink write.   *)
C14_PartialRecord ==
  /\ (last.op = "Write" /\ 0 < last.before /\ HasHeader(last.input)
        /\ Len(last.input) - 5 < LengthField(last.input)) =>
       (~panicked /\ ~last.split /\ PlainWrite(last) /\ prefixBytes = 0)
  /\ (last.op = "Write" /\ 0 < configured /\ last.before = 0) =>
       (~panicked /\ ~last.split /\ PlainWrite(last) /\ prefixBytes = 0)

(* a handshake record one payload byte short, long enough to pass the      *)
(* short-buffer test and with the offset inside the announced length       *)
C14_Witness ==
  /\ last.op = "Write"
  /\ 0 < last.before
  /\ HasHeader(last.input)
  /\ last.input[1] = typeHandshake
  /\ Len(last.input) - 5 < LengthField(last.input)
  /\ last.before < LengthField(last.input)
  /\ last.before < Len(last.input) - 5
  /\ PlainWrite(last)
  /\ prefixBytes = 0

(* what a ReadFrom on a writer with offset p is to hand the sink, return   *)
(* as its count and report as split, for a source that delivers input and  *)
(* then ends; none of the three depends on how the source slices input     *)
Delivered(p, input) ==
  IF ~(0 < p) THEN [bytes |-> input, n |-> Len(input), split |-> FALSE]
  ELSE IF ~HasHeader(input) THEN [bytes |-> <<>>, n |-> 0, split |-> FALSE]
  ELSE IF Splittable(p, input)
       THEN [bytes |-> SplitLayout(p, input), n |-> Len(input), split |-> TRUE]
  ELSE IF /\ input[1] = typeHandshake
          /\ p < LengthField(input)
          /\ LengthField(input) <= maxRecordLength
       THEN [bytes |-> <<>>, n |-> 0, split |-> FALSE]
  ELSE [bytes |-> input, n |-> Len(input), split |-> FALSE]

(* C15: for a source that delivers a byte sequence and then ends, and a    *)
(* sink that accepts every write, the bytes ReadFrom hands the sink,       *)
(* whether it splits and the count it returns are fixed by the sequence    *)
(* and the offset alone, whatever the size of the source's reads.          *)
C15_ChunkingIrrelevant ==
  (/\ last.op = "ReadFrom"
   /\ last.end = EOF
   /\ \A i \in 1..Len(last.writes) : last.writes[i].err = Nil) =>
     LET d == Delivered(last.before, last.input)
     IN /\ Handed(last) = d.bytes
        /\ last.split = d.split
        /\ last.n = d.n

(* a split whose source was read a byte at a time: the bytes after the     *)
(* record reach the sink in more than one write                            *)
C15_Witness ==
  /\ last.op = "ReadFrom"
  /\ last.end = EOF
  /\ last.err = Nil
  /\ last.split
  /\ Len(last.writes) >= 3
  /\ Len(last.writes[2].buf) = 1

(* C16: when a ReadFrom on an armed writer splits the first record and the *)
(* sink accepts every write, the first sink write is the split record      *)
(* alone (two headers and both payload parts), the later writes carry the  *)
(* bytes after the record as they are and in order, and the returned count *)
(* is the number of bytes taken from the source, 5 + record length +       *)
(* bytes after the record: the 5 added header bytes are not counted.       *)
C16_PullAccounting ==
  (/\ last.op = "ReadFrom"
   /\ last.split
   /\ \A i \in 1..Len(last.writes) : last.writes[i].err = Nil) =>
     LET L == LengthField(last.input)
         later == [i \in 1..(Len(last.writes) - 1) |-> last.writes[i + 1].buf]
     IN /\ last.writes[1].buf = SplitLayout(last.before, Take(last.input, 5 + L))
        /\ Len(last.writes[1].buf) = L + 10
        /\ Flatten(later) = Drop(last.input, 5 + L)
        /\ last.consumed = Len(last.input)
        /\ last.n = last.consumed
        /\ last.n = Len(Handed(last)) - 5

(* a split in pull mode with bytes after the record, all accepted *)
C16_Witness ==
  /\ last.op = "ReadFrom"
  /\ last.split
  /\ last.err = Nil
  /\ Len(last.writes) >= 2
  /\ Len(last.input) = 5 + LengthField(last.input) + MaxTrail
  /\ last.n = Len(last.input)

(* C17: a writer constructed with an offset of zero or less is disarmed    *)
(* from the start: each of its calls, the first included, hands the sink   *)
(* its input unmodified and never splits; a Write is one sink write and    *)
(* returns the sink's count and error, a ReadFrom returns the number of    *)
(* bytes the sink accepted and the error that ended the copy.              *)
C17_StartsDisarmed ==
  (~(0 < configured) /\ calls >= 1) =>
     /\ ~panicked
     /\ prefixBytes = configured
     /\ ~last.split
     /\ Verbatim(last)
     /\ last.op = "Write" => PlainWrite(last)
     /\ last.op = "ReadFrom" =>
          /\ last.n = Len(Accepted(last.writes))
          /\ last.err =
               (IF \E i \in 1..Len(last.writes) : last.writes[i].err /= Nil
                THEN EWRITE
                ELSE IF last.end = EOF THEN Nil ELSE last.end)

(* the first call, a ReadFrom, of a writer constructed with 0, its source   *)
(* holding a record that an armed writer would split and bytes after it    *)
C17_Witness ==
  /\ calls = 1
  /\ ~(0 < configured)
  /\ Splittable(1, last.input)
  /\ Len(last.input) > 5 + LengthField(last.input)
  /\ last.err = Nil
  /\ last.op = "ReadFrom"
  /\ configured = 0

(* C18: every Write call, armed or not and splitting or not, makes exactly *)
(* one write to the sink.                                                  *)
C18_OneSinkWrite == last.op = "Write" => Len(last.writes) = 1

(* C19: with a sink whose counts lie between 0 and the length of the       *)
(* buffer it was handed, the count a Write returns lies between 0 and the  *)
(* length of the Write's input, on the pass-through and on the split path, *)
(* for whole and for partial sink writes.                                  *)
C19_CountInRange ==
  (/\ last.op = "Write"
   /\ ~panicked
   /\ \A i \in 1..Len(last.writes) :
         0 <= last.writes[i].n /\ last.writes[i].n <= Len(last.writes[i].buf)) =>
     (0 <= last.n /\ last.n <= Len(last.input))

(* a split whose sink write stopped inside the first header *)
C19_Witness ==
  /\ last.op = "Write"
  /\ last.split
  /\ last.writes[1].n < 5
  /\ last.err = EWRITE
  /\ last.n = last.writes[1].n
====
